---- MODULE Spec2Model ----
(***************************************************************************)
(* A model of the weather command-line tool (src/weather_app.py with       *)
(* src/config.py): argument validation, address sanitizing, geocoding,     *)
(* forecast URL construction, the pooled HTTP client singleton, and the    *)
(* orchestrator main().                                                    *)
(*                                                                         *)
(* Representation.  A Python value is a tagged record.  A Python str that   *)
(* the code inspects character by character (an address, a number given as *)
(* text) is a sequence of one-character strings, the characters being the  *)
(* ones from U+0001 to U+00FF (the grave accent apart); a float is a       *)
(* fixed-point integer counting tenths, with its sign bit, so 47.6 is 476  *)
(* and the range bound 90 is Deg(90) = 900.  The numbers of                *)
(* the model carry no non-zero digit after the first fractional one and no *)
(* exponent, "inf" or "nan" spelling, and stay below 10^16.  Text that is  *)
(* only passed along (a URL, a response body, a log message) is a TLA+     *)
(* string.                                                                 *)
(***************************************************************************)
EXTENDS Integers, Sequences, FiniteSets, TLC

(***************************************************************************)
(* Python values                                                           *)
(***************************************************************************)
None == [t |-> "None"]

PyBool(b) == [t |-> "bool", v |-> b]

PyInt(n) == [t |-> "int", v |-> n]

PyStr(cs) == [t |-> "str", v |-> cs]

\* A float of magnitude m tenths with its sign bit; -0.0 is MakeFloat(TRUE, 0).
MakeFloat(neg, m) == [t |-> "float", v |-> IF neg THEN 0 - m ELSE m, neg |-> neg]

\* The float of x tenths.
PyFloat(x) == MakeFloat(x < 0, IF x < 0 THEN 0 - x ELSE x)

PyList(xs) == [t |-> "list", v |-> xs]

\* A dict is its items <<key, value>> in insertion order, the keys distinct.
PyDict(items) == [t |-> "dict", v |-> items]

\* n degrees in the fixed-point representation of floats (tenths).
Deg(n) == n * 10

\* The result of a call: a returned value, or a raised exception.
Return(v) == [ok |-> TRUE, value |-> v, exc |-> "", msg |-> ""]

Raise(e, m) == [ok |-> FALSE, value |-> None, exc |-> e, msg |-> m]

\* type(v).__name__
TypeName(v) == IF v.t = "None" THEN "NoneType" ELSE v.t

\* Python truthiness: `not v` is ~Truthy(v).
Truthy(v) ==
    CASE v.t = "None" -> FALSE
      [] v.t = "bool" -> v.v
      [] v.t \in {"int", "float"} -> v.v # 0
      [] v.t \in {"str", "list", "dict"} -> v.v # <<>>

\* Whether an exception of class exc is caught by `except base`: the
\* classes of weather_app.py derive from Exception directly; the decoding
\* errors are ValueErrors.
IsSubclass(exc, base) ==
    \/ exc = base
    \/ base = "ValueError" /\ exc \in {"JSONDecodeError", "UnicodeDecodeError"}

(***************************************************************************)
(* Text helpers                                                            *)
(***************************************************************************)
Digits == <<"0", "1", "2", "3", "4", "5", "6", "7", "8", "9">>

IsDigit(c) == \E i \in 1..10 : Digits[i] = c

DigitVal(c) == (CHOOSE i \in 1..10 : Digits[i] = c) - 1

\* The characters of the model that str.isprintable rejects and repr writes
\* as an escape, in code order: U+0001 to U+001F, U+007F to U+00A0, and
\* U+00AD.
Unprintable ==
    <<"", "", "", "", "", "", "",
      "", "\t", "\n", "", "\f", "\r", "", "",
      "", "", "", "", "", "", "", "",
      "", "", "", "", "", "", "", "",
      "", "", "", "", "", "", "", "",
      "", "", "", "", "", "", "", "",
      "", "", "", "", "", "", "", "",
      "", "", "", "", "", "", "", "",
      "", " ", "­">>

\* The code of the i-th of them.
Ord(i) == IF i <= 31 THEN i ELSE IF i <= 65 THEN i + 95 ELSE 173

\* The unprintable character of code n.
Chr(n) == Unprintable[CHOOSE i \in 1..Len(Unprintable) : Ord(i) = n]

\* The characters below U+0100 that str.isspace and the regular expression's
\* \s take: tab to carriage return, the four separators, the space, the
\* next-line control and the no-break space.
Whitespace ==
    {" ", "\t", "\n", "\r", "\f", Chr(11), Chr(28), Chr(29), Chr(30), Chr(31),
     Chr(133), Chr(160)}

\* The characters below U+0100 float() strips from a text: the separators
\* are not among them.
FloatWhitespace == {" ", "\t", "\n", "\r", "\f", Chr(11), Chr(133), Chr(160)}

IsSpace(c) == c \in Whitespace

\* The regular expression's \w under re.UNICODE, below U+0100: [A-Za-z0-9_]
\* and the Latin-1 letters and numbers.
IsWord(c) ==
    c \in {"a", "b", "c", "d", "e", "f", "g", "h", "i", "j", "k", "l", "m",
           "n", "o", "p", "q", "r", "s", "t", "u", "v", "w", "x", "y", "z",
           "A", "B", "C", "D", "E", "F", "G", "H", "I", "J", "K", "L", "M",
           "N", "O", "P", "Q", "R", "S", "T", "U", "V", "W", "X", "Y", "Z",
           "0", "1", "2", "3", "4", "5", "6", "7", "8", "9", "_",
           "ª", "²", "³", "µ", "¹", "º", "¼", "½", "¾", "À", "Á", "Â", "Ã",
           "Ä", "Å", "Æ", "Ç", "È", "É", "Ê", "Ë", "Ì", "Í", "Î", "Ï", "Ð",
           "Ñ", "Ò", "Ó", "Ô", "Õ", "Ö", "Ø", "Ù", "Ú", "Û", "Ü", "Ý", "Þ",
           "ß", "à", "á", "â", "ã", "ä", "å", "æ", "ç", "è", "é", "ê", "ë",
           "ì", "í", "î", "ï", "ð", "ñ", "ò", "ó", "ô", "õ", "ö", "ø", "ù",
           "ú", "û", "ü", "ý", "þ", "ÿ"}

RECURSIVE StrOf(_)
\* The TLA+ string spelled by a sequence of characters.
StrOf(cs) == IF cs = <<>> THEN "" ELSE Head(cs) \o StrOf(Tail(cs))

RECURSIVE LStrip(_, _)
LStrip(cs, chars) ==
    IF cs # <<>> /\ Head(cs) \in chars THEN LStrip(Tail(cs), chars) ELSE cs

RECURSIVE RStrip(_, _)
RStrip(cs, chars) ==
    IF cs # <<>> /\ cs[Len(cs)] \in chars
    THEN RStrip(SubSeq(cs, 1, Len(cs) - 1), chars)
    ELSE cs

\* str.strip()
strip(cs) == RStrip(LStrip(cs, Whitespace), Whitespace)

RECURSIVE NatVal(_)
\* The number a string of decimal digits spells.
NatVal(cs) ==
    IF cs = <<>> THEN 0
    ELSE NatVal(SubSeq(cs, 1, Len(cs) - 1)) * 10 + DigitVal(cs[Len(cs)])

RECURSIVE NatRepr(_)
NatRepr(n) ==
    IF n < 10 THEN <<Digits[n + 1]>>
    ELSE NatRepr(n \div 10) \o <<Digits[(n % 10) + 1]>>

\* repr of an int
IntRepr(n) == IF n < 0 THEN <<"-">> \o NatRepr(0 - n) ELSE NatRepr(n)

\* repr of a float: the sign, and always a fractional part.
FloatRepr(x) ==
    LET a == IF x.v < 0 THEN 0 - x.v ELSE x.v
    IN  (IF x.neg THEN <<"-">> ELSE <<>>)
            \o NatRepr(a \div 10) \o <<".", Digits[(a % 10) + 1]>>

\* How repr spells a character inside the quotes q.
ReprChar(c, q) ==
    CASE c = "\\" -> <<"\\", "\\">>
      [] c = q -> <<"\\", q>>
      [] c = "\t" -> <<"\\", "t">>
      [] c = "\n" -> <<"\\", "n">>
      [] c = "\r" -> <<"\\", "r">>
      [] OTHER ->
            IF \E i \in 1..Len(Unprintable) : Unprintable[i] = c
            THEN LET n == Ord(CHOOSE i \in 1..Len(Unprintable) : Unprintable[i] = c)
                     hex == Digits \o <<"a", "b", "c", "d", "e", "f">>
                 IN  <<"\\", "x", hex[(n \div 16) + 1], hex[(n % 16) + 1]>>
            ELSE <<c>>

RECURSIVE ReprChars(_, _)
ReprChars(cs, q) ==
    IF cs = <<>> THEN <<>> ELSE ReprChar(Head(cs), q) \o ReprChars(Tail(cs), q)

\* The quotes repr puts a str in: double ones when it holds a single quote
\* and no double quote.
QuoteOf(cs) ==
    IF (\E i \in 1..Len(cs) : cs[i] = "'") /\ ~(\E i \in 1..Len(cs) : cs[i] = "\"")
    THEN "\""
    ELSE "'"

\* repr of a str
StrRepr(cs) == <<QuoteOf(cs)>> \o ReprChars(cs, QuoteOf(cs)) \o <<QuoteOf(cs)>>

RECURSIVE Repr(_)
RECURSIVE ReprItems(_)
RECURSIVE ReprPairs(_)
\* repr(v), as a TLA+ string.  The keys of a dict are plain words.
Repr(v) ==
    CASE v.t = "None" -> "None"
      [] v.t = "bool" -> IF v.v THEN "True" ELSE "False"
      [] v.t = "int" -> StrOf(IntRepr(v.v))
      [] v.t = "float" -> StrOf(FloatRepr(v))
      [] v.t = "str" -> StrOf(StrRepr(v.v))
      [] v.t = "list" -> "[" \o ReprItems(v.v) \o "]"
      [] v.t = "dict" -> "{" \o ReprPairs(v.v) \o "}"

ReprItems(xs) ==
    IF xs = <<>> THEN ""
    ELSE IF Len(xs) = 1 THEN Repr(xs[1])
    ELSE Repr(xs[1]) \o ", " \o ReprItems(Tail(xs))

ReprPairs(items) ==
    IF items = <<>> THEN ""
    ELSE IF Len(items) = 1 THEN "'" \o items[1][1] \o "': " \o Repr(items[1][2])
    ELSE "'" \o items[1][1] \o "': " \o Repr(items[1][2]) \o ", "
            \o ReprPairs(Tail(items))

\* The text an f-string gives a value: str(v).
Format(v) == IF v.t = "str" THEN StrOf(v.v) ELSE Repr(v)

\* A group of digits, single underscores between digits allowed.
IsDigitPart(cs) ==
    /\ cs # <<>>
    /\ \A i \in 1..Len(cs) :
          \/ IsDigit(cs[i])
          \/ /\ cs[i] = "_"
             /\ 1 < i
             /\ i < Len(cs)
             /\ IsDigit(cs[i - 1])
             /\ IsDigit(cs[i + 1])

\* Where the first point of cs is; past its end when it has none.
PointAt(cs) ==
    IF \E i \in 1..Len(cs) : cs[i] = "."
    THEN CHOOSE i \in 1..Len(cs) :
            cs[i] = "." /\ \A j \in 1..(i - 1) : cs[j] # "."
    ELSE Len(cs) + 1

\* The digits before and after the point, as a float; text is what float()
\* was given.
ParseDigits(int, frac, neg, text) ==
    IF /\ int = <<>> \/ IsDigitPart(int)
       /\ frac = <<>> \/ IsDigitPart(frac)
       /\ int # <<>> \/ frac # <<>>
    THEN Return(MakeFloat(neg, NatVal(SelectSeq(int, IsDigit)) * 10
                                   + (IF frac = <<>> THEN 0 ELSE DigitVal(frac[1]))))
    ELSE Raise("ValueError",
               "could not convert string to float: " \o StrOf(StrRepr(text)))

ParseUnsigned(body, dot, neg, text) ==
    ParseDigits(SubSeq(body, 1, dot - 1), SubSeq(body, dot + 1, Len(body)), neg, text)

ParseSigned(s, text) ==
    IF s # <<>> /\ s[1] \in {"+", "-"}
    THEN ParseUnsigned(Tail(s), PointAt(Tail(s)), s[1] = "-", text)
    ELSE ParseUnsigned(s, PointAt(s), FALSE, text)

\* float(<str>): surrounding white space, an optional sign, digits (single
\* underscores between them allowed) with at most one point and at least
\* one digit.  The texts of the model hold no non-zero digit after the first
\* one past the point and spell no exponent, "inf" or "nan"; among those any
\* other text is a ValueError.
ParseFloat(cs) ==
    ParseSigned(RStrip(LStrip(cs, FloatWhitespace), FloatWhitespace), cs)

\* float(v) for a Python value v.
float(v) ==
    CASE v.t = "float" -> Return(v)
      [] v.t = "int" -> Return(PyFloat(v.v * 10))
      [] v.t = "bool" -> Return(PyFloat(IF v.v THEN 10 ELSE 0))
      [] v.t = "str" -> ParseFloat(v.v)
      [] OTHER ->
            Raise("TypeError",
                  "float() argument must be a string or a real number, not '"
                      \o TypeName(v) \o "'")

(***************************************************************************)
(* config.py                                                               *)
(***************************************************************************)
DEFAULT_PARAMS ==
    "current=temperature_2m,wind_speed_10m&temperature_unit=fahrenheit&wind_speed_unit=mph&timezone=auto"

GEOCODE_BASE_URL == "https://geocode.maps.co/search"

WEATHER_BASE_URL == "https://api.open-meteo.com/v1/forecast"

\* os.environ.get('MAPS_API_KEY') of the modelled process.
MAPS_API_KEY == "KEY"

(***************************************************************************)
(* Validator and URL builder                                               *)
(***************************************************************************)
\* validate_latitude_longitude with the upper limits excluded.
validate_exclusive(latitude, longitude) ==
    IF ~(Deg(-90) <= latitude /\ latitude < Deg(90)) THEN FALSE
    ELSE IF ~(Deg(-180) <= longitude /\ longitude < Deg(180)) THEN FALSE
    ELSE TRUE

\* latitude, longitude: the numbers, in tenths.
validate_latitude_longitude(latitude, longitude) ==
    IF ~(Deg(-90) <= latitude /\ latitude <= Deg(90)) THEN FALSE
    ELSE IF ~(Deg(-180) <= longitude /\ longitude <= Deg(180)) THEN FALSE
    ELSE TRUE

\* The URL of line 33 for the floats latitude and longitude.
ForecastUrl(latitude, longitude) ==
    WEATHER_BASE_URL \o "?latitude=" \o Format(latitude)
        \o "&longitude=" \o Format(longitude) \o "&" \o DEFAULT_PARAMS

NotNumerical(latitude, longitude) ==
    Raise("BuildUrlError",
          "Lat/long must be numerical values. Received: Latitude: "
              \o Format(latitude) \o ", Longitude: " \o Format(longitude))

\* build_url without its range check.
build_url_unvalidated(latitude, longitude, lat, lon) ==
    IF ~lat.ok THEN NotNumerical(latitude, longitude)
    ELSE IF ~lon.ok THEN NotNumerical(lat.value, longitude)
    ELSE Return(ForecastUrl(lat.value, lon.value))

\* build_url with lat = float(latitude) and lon = float(longitude): the
\* bare except turns a failure of either into BuildUrlError, the latitude
\* already converted when it is the longitude that fails.
build_url_of(latitude, longitude, lat, lon) ==
    IF ~lat.ok THEN NotNumerical(latitude, longitude)
    ELSE IF ~lon.ok THEN NotNumerical(lat.value, longitude)
    ELSE IF ~validate_latitude_longitude(lat.value.v, lon.value.v)
    THEN Raise("BuildUrlError",
               "Invalid lat/long provided. Latitude: " \o Format(lat.value)
                   \o ", Longitude: " \o Format(lon.value))
    ELSE Return(ForecastUrl(lat.value, lon.value))

build_url(latitude, longitude) ==
    build_url_of(latitude, longitude, float(latitude), float(longitude))

(***************************************************************************)
(* Command line                                                            *)
(***************************************************************************)
\* argparse's Namespace.
Namespace(address, latitude, longitude, verbose) ==
    [address |-> address, latitude |-> latitude, longitude |-> longitude,
     verbose |-> verbose]

AllDigits(cs) == \A i \in 1..Len(cs) : IsDigit(cs[i])

\* cs without the line feed it ends with, if it ends with one.
Chomp(cs) ==
    IF cs # <<>> /\ cs[Len(cs)] = "\n" THEN SubSeq(cs, 1, Len(cs) - 1) ELSE cs

\* Digits after the minus sign, or digits, a point and digits.
IsNegativeBody(rest, dot) ==
    IF dot > Len(rest) THEN rest # <<>> /\ AllDigits(rest)
    ELSE /\ AllDigits(SubSeq(rest, 1, dot - 1))
         /\ dot < Len(rest)
         /\ AllDigits(SubSeq(rest, dot + 1, Len(rest)))

\* argparse's _negative_number_matcher, '^-\d+$|^-\d*\.\d+$', on a text that
\* starts with "-".
IsNegativeNumber(cs) == IsNegativeBody(Tail(Chomp(cs)), PointAt(Tail(Chomp(cs))))

\* The option strings of the parser, long ones.
OptionStrings ==
    {<<"-", "-", "h", "e", "l", "p">>,
     <<"-", "-", "a", "d", "d", "r", "e", "s", "s">>,
     <<"-", "-", "l", "a", "t", "i", "t", "u", "d", "e">>,
     <<"-", "-", "l", "o", "n", "g", "i", "t", "u", "d", "e">>,
     <<"-", "-", "v", "e", "r", "b", "o", "s", "e">>}

\* Where the first "=" of cs is; past its end when it has none.
EqualsAt(cs) ==
    IF \E i \in 1..Len(cs) : cs[i] = "="
    THEN CHOOSE i \in 1..Len(cs) :
            cs[i] = "=" /\ \A j \in 1..(i - 1) : cs[j] # "="
    ELSE Len(cs) + 1

IsPrefix(p, cs) == Len(p) <= Len(cs) /\ SubSeq(cs, 1, Len(p)) = p

\* Whether a text of two characters or more that starts with "-" is, or
\* abbreviates, an option string of the parser ("-h" with anything after it,
\* or the start of a long option up to an "=").
IsOptionString(cs) ==
    IF cs[2] = "-"
    THEN \E o \in OptionStrings : IsPrefix(SubSeq(cs, 1, EqualsAt(cs) - 1), o)
    ELSE cs[2] = "h"

\* argparse's _parse_optional: whether the text after an option is taken as
\* that option's argument.
IsArgument(cs) ==
    \/ cs = <<>>
    \/ cs[1] # "-"
    \/ Len(cs) = 1
    \/ /\ ~IsOptionString(cs)
       /\ IsNegativeNumber(cs) \/ (\E i \in 1..Len(cs) : cs[i] = " ")

ArgFloatOf(f) ==
    IF f.ok THEN f
    ELSE Raise("SystemExit", "invalid float value")

\* An option's text as argparse takes it: an absent option stays None, and a
\* text that is no argument leaves the option without one.
ArgStr(a) ==
    IF a = None \/ IsArgument(a.v) THEN Return(a)
    ELSE Raise("SystemExit", "expected one argument")

\* argparse's type=float on an option's text.
ArgFloat(a) ==
    IF a = None THEN Return(None)
    ELSE IF ~IsArgument(a.v) THEN Raise("SystemExit", "expected one argument")
    ELSE ArgFloatOf(float(a))

\* parse_args's checks testing the options for truth instead of for None.
parse_args_checks_truthy(parsed_args) ==
    IF Truthy(parsed_args.address)
        /\ (Truthy(parsed_args.latitude) \/ Truthy(parsed_args.longitude))
    THEN Raise("ParsedArgumentError",
               "Address and latitude/longitude cannot be provided together.")
    ELSE IF Truthy(parsed_args.latitude) # Truthy(parsed_args.longitude)
    THEN Raise("ParsedArgumentError",
               "Both latitude and longitude must be provided together.")
    ELSE IF ~Truthy(parsed_args.latitude) /\ ~Truthy(parsed_args.address)
    THEN Raise("ParsedArgumentError",
               "Either '--latitude' and '--longitude' pair, or '--address' must be provided.")
    ELSE IF /\ Truthy(parsed_args.latitude)
            /\ Truthy(parsed_args.longitude)
            /\ ~validate_latitude_longitude(parsed_args.latitude.v,
                                            parsed_args.longitude.v)
    THEN Raise("ParsedArgumentError",
               "Invalid latitude and/or longitude values provided.")
    ELSE Return(parsed_args)

\* parse_args, lines 115-139: the checks on argparse's Namespace.
parse_args_checks(parsed_args) ==
    IF parsed_args.address # None
        /\ (parsed_args.latitude # None \/ parsed_args.longitude # None)
    THEN Raise("ParsedArgumentError",
               "Address and latitude/longitude cannot be provided together.")
    ELSE IF (parsed_args.latitude # None) # (parsed_args.longitude # None)
    THEN Raise("ParsedArgumentError",
               "Both latitude and longitude must be provided together.")
    ELSE IF parsed_args.latitude = None /\ parsed_args.address = None
    THEN Raise("ParsedArgumentError",
               "Either '--latitude' and '--longitude' pair, or '--address' must be provided.")
    ELSE IF /\ parsed_args.latitude # None
            /\ parsed_args.longitude # None
            /\ ~validate_latitude_longitude(parsed_args.latitude.v,
                                            parsed_args.longitude.v)
    THEN Raise("ParsedArgumentError",
               "Invalid latitude and/or longitude values provided.")
    ELSE Return(parsed_args)

\* parse_args, lines 108-113: argparse, which leaves with exit code 2 on an
\* option without an argument and on a text that is no float.
parse_args_of(args, address, lat, lon) ==
    IF ~address.ok THEN address
    ELSE IF ~lat.ok THEN lat
    ELSE IF ~lon.ok THEN lon
    ELSE parse_args_checks(Namespace(args.address, lat.value, lon.value, args.verbose))

\* args: the options of the command line --address A --latitude LAT
\* --longitude LONG [--verbose], each None when absent, the numbers as text.
parse_args(args) ==
    parse_args_of(args, ArgStr(args.address), ArgFloat(args.latitude),
                  ArgFloat(args.longitude))

(***************************************************************************)
(* Address sanitizer                                                       *)
(***************************************************************************)
\* A character a token runs over: [^\s,;#&()].
IsRunChar(c) == ~IsSpace(c) /\ c \notin {",", ";", "#", "&", "(", ")"}

\* Punctuation a token keeps at its end: [.,;)\n].
IsTrailer(c) == c \in {".", ",", ";", ")", "\n"}

IsClass(c, k) ==
    CASE k = "run" -> IsRunChar(c)
      [] k = "trailer" -> IsTrailer(c)
      [] k = "paren" -> c = "("

RECURSIVE RunLen(_, _, _)
\* The length of the longest run of characters of class k starting at cs[i].
RunLen(cs, i, k) ==
    IF i <= Len(cs) /\ IsClass(cs[i], k) THEN 1 + RunLen(cs, i + 1, k) ELSE 0

RECURSIVE findall(_)
\* The token of n characters at the head of cs, and the tokens after it.
TokenThen(cs, n) == <<SubSeq(cs, 1, n)>> \o findall(SubSeq(cs, n + 1, Len(cs)))

\* The length of the token whose parentheses and run take n characters.
TokenLen(cs, n) == n + RunLen(cs, n + 1, "trailer")

\* The tokens of cs, which starts with k opening parentheses: a token starts
\* where a word character follows them (the regular expression's \b).
TokenAfterParens(cs, k) ==
    IF k < Len(cs) /\ IsWord(cs[k + 1])
    THEN TokenThen(cs, TokenLen(cs, k + RunLen(cs, k + 1, "run")))
    ELSE IF cs[1] \in {"#", "&"} THEN TokenThen(cs, 1)
    ELSE findall(Tail(cs))

\* re_tokens.findall with \(*\b[^\s,;#&()]+[.,;)\n]*|[#&]: a token is a run
\* of characters starting at a word boundary, with the parentheses before it
\* and the punctuation after it, or a lone # or &; anything else is skipped.
findall(cs) ==
    IF cs = <<>> THEN <<>> ELSE TokenAfterParens(cs, RunLen(cs, 1, "paren"))

RECURSIVE Unescape(_)
\* re.sub('(&#38;)|(&amp;)', '&', address_string): each escaped ampersand,
\* from the left, becomes an ampersand; the result is not looked at again.
Unescape(cs) ==
    IF cs = <<>> THEN <<>>
    ELSE IF IsPrefix(<<"&", "a", "m", "p", ";">>, cs)
            \/ IsPrefix(<<"&", "#", "3", "8", ";">>, cs)
    THEN <<"&">> \o Unescape(SubSeq(cs, 6, Len(cs)))
    ELSE <<Head(cs)>> \o Unescape(Tail(cs))

\* usaddress.tokenize
tokenize(cs) == findall(Unescape(cs))

\* Each token with the label the tagger gives it.  The labels are the
\* tagger's; sanitize_address discards them.
Labelled(tokens) == [i \in 1..Len(tokens) |-> <<tokens[i], "Label">>]

\* usaddress.parse
usaddress_parse(cs) == Labelled(tokenize(cs))

\* [component for component, label in parsed_components]
Components(parsed_components) ==
    [i \in 1..Len(parsed_components) |-> parsed_components[i][1]]

RECURSIVE join(_, _)
\* sep.join(parts)
join(sep, parts) ==
    IF parts = <<>> THEN <<>>
    ELSE IF Len(parts) = 1 THEN parts[1]
    ELSE parts[1] \o sep \o join(sep, Tail(parts))

\* address: a str, or None.
sanitize_address(address) ==
    IF ~Truthy(address) \/ strip(address.v) = <<>>
    THEN Raise("ValueError", "Missing address. Input provided: " \o Format(address))
    ELSE Return(PyStr(join(<<" ">>, Components(usaddress_parse(address.v)))))

(***************************************************************************)
(* JSON                                                                    *)
(***************************************************************************)
\* Response bodies of the geocoding service.
GEO_MALFORMED == "<html>busy</html>"

GEO_EMPTY == "[]"

GEO_EMPTY_OBJECT == "{}"

GEO_ERROR_OBJECT == "{\"error\":\"denied\"}"

GEO_SEATTLE == "[{\"display_name\":\"Seattle\",\"lat\":\"47.6\",\"lon\":\"-122.3\"}]"

GEO_TWO ==
    "[{\"display_name\":\"Paris\",\"lat\":\"48.9\",\"lon\":\"2.4\"},{\"display_name\":\"Paris TX\",\"lat\":\"33.7\",\"lon\":\"-95.6\"}]"

GEO_OUT_OF_RANGE == "[{\"display_name\":\"Nowhere\",\"lat\":\"90.1\",\"lon\":\"0.0\"}]"

GEO_NOT_NUMERIC == "[{\"display_name\":\"Bad\",\"lat\":\"north\",\"lon\":\"0.0\"}]"

GEO_UNNAMED == "[{\"lat\":\"0.0\",\"lon\":\"0.0\"}]"

GEO_NUMBERS == "[{\"display_name\":null,\"lat\":0,\"lon\":-122.3}]"

GEO_STRING == "\"abc\""

\* Response bodies of the forecast service.
WX_MALFORMED == "Service Unavailable"

WX_SEATTLE ==
    "{\"latitude\":47.6,\"longitude\":-122.3,\"current\":{\"temperature_2m\":72.5,\"wind_speed_10m\":5.0}}"

WX_COLD ==
    "{\"latitude\":0.0,\"longitude\":0.0,\"current\":{\"temperature_2m\":-3.4,\"wind_speed_10m\":12.1}}"

WX_NO_CURRENT == "{\"latitude\":47.6,\"longitude\":-122.3}"

WX_NO_LATITUDE == "{\"longitude\":-122.3,\"current\":{\"temperature_2m\":72.5,\"wind_speed_10m\":5.0}}"

WX_NO_LONGITUDE == "{\"latitude\":47.6,\"current\":{\"temperature_2m\":72.5,\"wind_speed_10m\":5.0}}"

WX_LATITUDE_TEXT ==
    "{\"latitude\":\"north\",\"longitude\":-122.3,\"current\":{\"temperature_2m\":72.5,\"wind_speed_10m\":5.0}}"

WX_LATITUDE_NULL ==
    "{\"latitude\":null,\"longitude\":-122.3,\"current\":{\"temperature_2m\":72.5,\"wind_speed_10m\":5.0}}"

WX_NO_TEMPERATURE == "{\"latitude\":47.6,\"longitude\":-122.3,\"current\":{\"wind_speed_10m\":5.0}}"

WX_CURRENT_NUMBER == "{\"latitude\":47.6,\"longitude\":-122.3,\"current\":5.0}"

WX_LIST == "[]"

WX_LIST_OF_KEYS == "[\"latitude\",\"longitude\",\"current\"]"

WX_STRING == "\"current\""

WX_STRING_OF_KEYS == "\"latitude longitude current\""

WX_NUMBER == "5"

WX_INTEGERS ==
    "{\"latitude\":48,\"longitude\":-122,\"current\":{\"temperature_2m\":70,\"wind_speed_10m\":5}}"

WX_CONTAINERS ==
    "{\"latitude\":true,\"longitude\":\"12\",\"current\":{\"temperature_2m\":[1.0,\"a\"],\"wind_speed_10m\":{\"x\":null}}}"

Candidate(name, lat, lon) ==
    PyDict(<< <<"display_name", PyStr(name)>>, <<"lat", PyStr(lat)>>,
              <<"lon", PyStr(lon)>> >>)

Current(temperature, wind) ==
    PyDict(<< <<"temperature_2m", PyFloat(temperature)>>,
              <<"wind_speed_10m", PyFloat(wind)>> >>)

Forecast(latitude, longitude, current) ==
    PyDict(<< <<"latitude", latitude>>, <<"longitude", longitude>>,
              <<"current", current>> >>)

\* json.loads on the bodies above; any other text here is not JSON.
json_loads(s) ==
    CASE s = GEO_EMPTY -> Return(PyList(<<>>))
      [] s = GEO_EMPTY_OBJECT -> Return(PyDict(<<>>))
      [] s = GEO_ERROR_OBJECT ->
            Return(PyDict(<< <<"error", PyStr(<<"d", "e", "n", "i", "e", "d">>)>> >>))
      [] s = GEO_STRING -> Return(PyStr(<<"a", "b", "c">>))
      [] s = GEO_SEATTLE ->
            Return(PyList(<<Candidate(<<"S", "e", "a", "t", "t", "l", "e">>,
                                      <<"4", "7", ".", "6">>,
                                      <<"-", "1", "2", "2", ".", "3">>)>>))
      [] s = GEO_TWO ->
            Return(PyList(<<Candidate(<<"P", "a", "r", "i", "s">>,
                                      <<"4", "8", ".", "9">>, <<"2", ".", "4">>),
                            Candidate(<<"P", "a", "r", "i", "s", " ", "T", "X">>,
                                      <<"3", "3", ".", "7">>,
                                      <<"-", "9", "5", ".", "6">>)>>))
      [] s = GEO_OUT_OF_RANGE ->
            Return(PyList(<<Candidate(<<"N", "o", "w", "h", "e", "r", "e">>,
                                      <<"9", "0", ".", "1">>, <<"0", ".", "0">>)>>))
      [] s = GEO_NOT_NUMERIC ->
            Return(PyList(<<Candidate(<<"B", "a", "d">>,
                                      <<"n", "o", "r", "t", "h">>, <<"0", ".", "0">>)>>))
      [] s = GEO_UNNAMED ->
            Return(PyList(<<PyDict(<< <<"lat", PyStr(<<"0", ".", "0">>)>>,
                                      <<"lon", PyStr(<<"0", ".", "0">>)>> >>)>>))
      [] s = GEO_NUMBERS ->
            Return(PyList(<<PyDict(<< <<"display_name", None>>,
                                      <<"lat", PyInt(0)>>,
                                      <<"lon", PyFloat(-1223)>> >>)>>))
      [] s = WX_SEATTLE ->
            Return(Forecast(PyFloat(476), PyFloat(-1223), Current(725, 50)))
      [] s = WX_COLD ->
            Return(Forecast(PyFloat(0), PyFloat(0), Current(-34, 121)))
      [] s = WX_NO_CURRENT ->
            Return(PyDict(<< <<"latitude", PyFloat(476)>>,
                             <<"longitude", PyFloat(-1223)>> >>))
      [] s = WX_NO_LATITUDE ->
            Return(PyDict(<< <<"longitude", PyFloat(-1223)>>,
                             <<"current", Current(725, 50)>> >>))
      [] s = WX_NO_LONGITUDE ->
            Return(PyDict(<< <<"latitude", PyFloat(476)>>,
                             <<"current", Current(725, 50)>> >>))
      [] s = WX_LATITUDE_TEXT ->
            Return(Forecast(PyStr(<<"n", "o", "r", "t", "h">>), PyFloat(-1223),
                            Current(725, 50)))
      [] s = WX_LATITUDE_NULL ->
            Return(Forecast(None, PyFloat(-1223), Current(725, 50)))
      [] s = WX_NO_TEMPERATURE ->
            Return(Forecast(PyFloat(476), PyFloat(-1223),
                            PyDict(<< <<"wind_speed_10m", PyFloat(50)>> >>)))
      [] s = WX_CURRENT_NUMBER ->
            Return(Forecast(PyFloat(476), PyFloat(-1223), PyFloat(50)))
      [] s = WX_LIST -> Return(PyList(<<>>))
      [] s = WX_LIST_OF_KEYS ->
            Return(PyList(<<PyStr(<<"l", "a", "t", "i", "t", "u", "d", "e">>),
                            PyStr(<<"l", "o", "n", "g", "i", "t", "u", "d", "e">>),
                            PyStr(<<"c", "u", "r", "r", "e", "n", "t">>)>>))
      [] s = WX_STRING -> Return(PyStr(<<"c", "u", "r", "r", "e", "n", "t">>))
      [] s = WX_STRING_OF_KEYS ->
            Return(PyStr(<<"l", "a", "t", "i", "t", "u", "d", "e", " ",
                           "l", "o", "n", "g", "i", "t", "u", "d", "e", " ",
                           "c", "u", "r", "r", "e", "n", "t">>))
      [] s = WX_NUMBER -> Return(PyInt(5))
      [] s = WX_INTEGERS ->
            Return(Forecast(PyInt(48), PyInt(-122),
                            PyDict(<< <<"temperature_2m", PyInt(70)>>,
                                      <<"wind_speed_10m", PyInt(5)>> >>)))
      [] s = WX_CONTAINERS ->
            Return(Forecast(PyBool(TRUE), PyStr(<<"1", "2">>),
                            PyDict(<< <<"temperature_2m",
                                        PyList(<<PyFloat(10), PyStr(<<"a">>)>>)>>,
                                      <<"wind_speed_10m",
                                        PyDict(<< <<"x", None>> >>)>> >>)))
      [] OTHER ->
            Raise("JSONDecodeError", "Expecting value: line 1 column 1 (char 0)")

\* parse_json_response, from what json.loads came to.
parse_json_response_of(r) ==
    IF IsSubclass(r.exc, "JSONDecodeError")
    THEN Raise("ValueError", "Malformed JSON response: " \o r.msg)
    ELSE r

parse_json_response(response) == parse_json_response_of(json_loads(response))

NotSubscriptable(v) ==
    Raise("TypeError", "'" \o TypeName(v) \o "' object is not subscriptable")

\* v[0]
GetItem0(v) ==
    CASE v.t = "list" ->
            IF v.v # <<>> THEN Return(v.v[1])
            ELSE Raise("IndexError", "list index out of range")
      [] v.t = "str" ->
            IF v.v # <<>> THEN Return(PyStr(<<v.v[1]>>))
            ELSE Raise("IndexError", "string index out of range")
      [] v.t = "dict" -> Raise("KeyError", "0")
      [] OTHER -> NotSubscriptable(v)

\* k in d, for a dict d
HasKey(d, k) == \E i \in 1..Len(d.v) : d.v[i][1] = k

\* d[k], for a dict d that has the key
Lookup(d, k) == d.v[CHOOSE i \in 1..Len(d.v) : d.v[i][1] = k][2]

\* v[k] for a text key k
GetKey(v, k) ==
    CASE v.t = "dict" ->
            IF HasKey(v, k) THEN Return(Lookup(v, k))
            ELSE Raise("KeyError", "'" \o k \o "'")
      [] v.t = "list" ->
            Raise("TypeError", "list indices must be integers or slices, not str")
      [] v.t = "str" ->
            Raise("TypeError", "string indices must be integers, not 'str'")
      [] OTHER -> NotSubscriptable(v)

GetKeyOf(first, k) == IF first.ok THEN GetKey(first.value, k) ELSE first

\* v[0][k]
GetItem0Key(v, k) == GetKeyOf(GetItem0(v), k)

\* The first failure among three results; the last when none failed.
FirstFailure(a, b, c) == IF ~a.ok THEN a ELSE IF ~b.ok THEN b ELSE c

\* k in v, for a dict, a list or a str v: a key of the dict, an item of the
\* list, a part of the str.
Contains(v, k) ==
    CASE v.t = "dict" -> HasKey(v, k)
      [] v.t = "list" ->
            \E i \in 1..Len(v.v) : v.v[i].t = "str" /\ StrOf(v.v[i].v) = k
      [] v.t = "str" ->
            \E i \in 1..Len(v.v) : \E j \in i..Len(v.v) :
                StrOf(SubSeq(v.v, i, j)) = k

\* d.get(k)
Get(d, k) == IF HasKey(d, k) THEN Lookup(d, k) ELSE None

(***************************************************************************)
(* HTTP                                                                    *)
(***************************************************************************)
\* What the pool's request('GET', url) comes to, retries included: a final
\* response with its data as text, a response whose data is the bytes FF FE
\* (no UTF-8), a timeout, or another request error with its text.
HttpResponse(status, body) == [kind |-> "response", status |-> status, body |-> body]

HttpBytes(status) == [kind |-> "bytes", status |-> status, body |-> ""]

HttpTimeout == [kind |-> "timeout", status |-> 0, body |-> ""]

HttpRequestError(text) == [kind |-> "error", status |-> 0, body |-> text]

\* WeatherAPI.fetch_url, lines 236-238: a response in hand.
fetch_url_response(http) ==
    IF http.status # 200
    THEN Raise("FetchUrlDataError",
               "Failed to fetch data: " \o StrOf(IntRepr(http.status)))
    ELSE IF http.kind = "bytes"
    THEN Raise("UnicodeDecodeError",
               "'utf-8' codec can't decode byte 0xff in position 0: invalid start byte")
    ELSE Return(http.body)

\* WeatherAPI.fetch_url, given what the request came to.
fetch_url(http) ==
    CASE http.kind = "timeout" -> Raise("FetchUrlDataError", "Request timed out")
      [] http.kind = "error" ->
            Raise("FetchUrlDataError", "Request failed: " \o http.body)
      [] OTHER -> fetch_url_response(http)

(***************************************************************************)
(* Geocoder                                                                *)
(***************************************************************************)
\* address: the str get_coords_from_address is given.
GeocodeUrl(address) ==
    GEOCODE_BASE_URL \o "?q=" \o StrOf(address.v) \o "&api_key=" \o MAPS_API_KEY

\* get_coords_from_address, lines 62-75: coords decoded.
get_coords_checks(address, coords, verbose) ==
    IF ~coords.ok THEN coords
    ELSE IF ~Truthy(coords.value)
    THEN Raise("GetCoordsFromAddressError",
               "No coordinates found for address: " \o StrOf(address.v)
                   \o ". Verify that the address is valid.")
    ELSE IF verbose
    THEN FirstFailure(GetItem0Key(coords.value, "display_name"),
                      GetItem0Key(coords.value, "lat"),
                      FirstFailure(GetItem0Key(coords.value, "lon"), coords, coords))
    ELSE coords

\* get_coords_from_address, lines 60-78: fetch_url done; the except clause
\* takes a FetchUrlDataError, and anything else leaves the function.
get_coords_of(address, response, verbose) ==
    IF response.ok
    THEN get_coords_checks(address, parse_json_response(response.value), verbose)
    ELSE IF IsSubclass(response.exc, "FetchUrlDataError")
    THEN Raise("GetCoordsFromAddressError",
               "Error getting coordinates from address: " \o response.msg)
    ELSE response

\* get_coords_from_address, given what its request came to.
get_coords_from_address(address, verbose, http) ==
    get_coords_of(address, fetch_url(http), verbose)

(***************************************************************************)
(* Forecast payload                                                        *)
(***************************************************************************)
WeatherData(latitude, longitude, current) ==
    [latitude |-> latitude, longitude |-> longitude, current |-> current]

\* WeatherData.from_dict, lines 198-202, with the two float() calls done.
from_dict_of(lat, lon, current) ==
    IF ~lat.ok THEN lat
    ELSE IF ~lon.ok THEN lon
    ELSE Return(WeatherData(lat.value, lon.value, current))

\* WeatherData.from_dict, lines 198-202: the three `in` tests passed.
from_dict_fields(data) ==
    IF data.t = "dict"
    THEN from_dict_of(float(Lookup(data, "latitude")),
                      float(Lookup(data, "longitude")),
                      Lookup(data, "current"))
    ELSE GetKey(data, "latitude")

\* WeatherData.from_dict
from_dict(data) ==
    IF data.t \notin {"dict", "list", "str"}
    THEN Raise("TypeError",
               "argument of type '" \o TypeName(data) \o "' is not iterable")
    ELSE IF ~(\A key \in {"latitude", "longitude", "current"} : Contains(data, key))
    THEN Raise("ValueError", "Missing required fields in weather data")
    ELSE from_dict_fields(data)

\* What display_weather_data did: the lines printed, the errors logged, and
\* the exception that left it ("" when it returned).
Displayed(lines, errors, exc) == [stdout |-> lines, errors |-> errors, exc |-> exc]

\* display_weather_data reading each measurement under the other's key.
display_current_swapped(current) ==
    IF current.t # "dict"
    THEN Displayed(<<>>, <<>>, "AttributeError")
    ELSE Displayed(<<"Temperature:\t" \o Format(Get(current, "wind_speed_10m")) \o "°",
                     "Wind Speed:\t" \o Format(Get(current, "temperature_2m")) \o " MPH">>,
                   <<>>, "")

\* display_weather_data, lines 49-51.
display_current(current) ==
    IF current.t # "dict"
    THEN Displayed(<<>>, <<>>, "AttributeError")
    ELSE Displayed(<<"Temperature:\t" \o Format(Get(current, "temperature_2m")) \o "°",
                     "Wind Speed:\t" \o Format(Get(current, "wind_speed_10m")) \o " MPH">>,
                   <<>>, "")

\* display_weather_data from a result r of its try block: the except clause
\* takes a ValueError, and anything else leaves the function.
display_result(r) ==
    IF r.ok THEN display_current(r.value.current)
    ELSE IF IsSubclass(r.exc, "ValueError")
    THEN Displayed(<<>>, <<"Failed to parse weather data: " \o r.msg>>, "")
    ELSE Displayed(<<>>, <<>>, r.exc)

display_data(data) ==
    IF data.ok THEN display_result(from_dict(data.value)) ELSE display_result(data)

display_weather_data(response) == display_data(parse_json_response(response))

(***************************************************************************)
(* The HTTP client singleton                                               *)
(***************************************************************************)
\* The class WeatherAPI: its _instance, and how many WeatherAPI objects and
\* pool managers the process has constructed so far.  An object is
\* [id, http]: its identity and the identity of its pool manager.
WeatherAPIClass(instance, objects, pools) ==
    [instance |-> instance, objects |-> objects, pools |-> pools]

\* create_http_client(): one more pool manager constructed by the process.
create_http_client(c) == WeatherAPIClass(c.instance, c.objects, c.pools + 1)

\* __new__ without its test of _instance.
WeatherAPI_new_unchecked(c) ==
    WeatherAPIClass([id |-> c.objects + 1, http |-> c.pools + 1],
                    c.objects + 1, c.pools + 1)

\* WeatherAPI(): __new__ (object.__init__ does nothing).  The object the
\* call returns is the instance field of the class afterwards.
WeatherAPI_new(c) ==
    IF c.instance = None
    THEN WeatherAPIClass([id |-> c.objects + 1, http |-> c.pools + 1],
                         c.objects + 1, create_http_client(c).pools)
    ELSE c

\* WeatherAPI.get_instance()
get_instance(c) == IF c.instance = None THEN WeatherAPI_new(c) ELSE c

Request(u, pool) == [e |-> "request", url |-> u, pool |-> pool]

\* WeatherAPI.__exit__: self.http.clear()
Release(pool) == [e |-> "release", url |-> "", pool |-> pool]

\* The request without the scope that releases the pool.
ScopedFetch_unreleased(ev, pool, u) == ev \o <<Request(u, pool)>>

\* `with WeatherAPI.get_instance() as weather_api: weather_api.fetch_url(u)`:
\* the request, then __exit__ whether fetch_url returned or raised.
ScopedFetch(ev, pool, u) == ev \o <<Request(u, pool), Release(pool)>>

(***************************************************************************)
(* Orchestrator                                                            *)
(***************************************************************************)
\* Whether get_weather_url reaches the geocoding request.
Geocodes(parsed_args) ==
    Truthy(parsed_args.address) /\ sanitize_address(parsed_args.address).ok

\* get_weather_url, line 96: build_url(coords[0]['lat'], coords[0]['lon'])
\* with the two subscripts done.
url_from_items(lat, lon) ==
    IF ~lat.ok THEN lat
    ELSE IF ~lon.ok THEN lon
    ELSE build_url(lat.value, lon.value)

\* get_weather_url, line 96: coords in hand.
url_from_coords(coords) ==
    IF ~coords.ok THEN coords
    ELSE url_from_items(GetItem0Key(coords.value, "lat"),
                        GetItem0Key(coords.value, "lon"))

\* get_weather_url, lines 94-96: the address branch.
url_from_address(address, verbose, http) ==
    IF ~address.ok THEN address
    ELSE url_from_coords(get_coords_from_address(address.value, verbose, http))

\* get_weather_url, given what the geocoding request (if made) came to.
get_weather_url(parsed_args, http) ==
    IF Truthy(parsed_args.address)
    THEN url_from_address(sanitize_address(parsed_args.address),
                          parsed_args.verbose, http)
    ELSE IF Truthy(parsed_args.latitude)
    THEN build_url(parsed_args.latitude, parsed_args.longitude)
    ELSE Raise("ParsedArgumentError",
               "Failed to build URL: No valid address / coordinates provided.")

\* The exceptions main's except clause names.
MainCatches ==
    {"BuildUrlError", "FetchUrlDataError", "FetchWeatherDataError",
     "GetCoordsFromAddressError", "ParsedArgumentError", "AddressMissingError",
     "ParseAddressError", "ValueError"}

\* What a run has shown for itself: the lines print() wrote, the errors
\* logged (kept apart here; setup_logging, line 286, only settles where the
\* log is written), the exit code (-1 while running) and the exception that
\* escaped main.
Outcome(lines, errors, code, uncaught) ==
    [stdout |-> lines, log |-> errors, exit_code |-> code, uncaught |-> uncaught]

\* How a run ends on the exception r: logged by main and exit code 1 when
\* the except clause names its class or a base of it; argparse's own exit
\* with code 2; or a traceback, which Python ends with 1.
Terminate(r) ==
    IF \E base \in MainCatches : IsSubclass(r.exc, base)
    THEN Outcome(<<>>, <<r.msg>>, 1, "")
    ELSE IF r.exc = "SystemExit" THEN Outcome(<<>>, <<>>, 2, "")
    ELSE Outcome(<<>>, <<>>, 1, r.exc)

\* How a run ends once display_weather_data has come to d.
Finish(d) ==
    IF d.exc = "" THEN Outcome(d.stdout, d.errors, 0, "")
    ELSE Outcome(<<>>, <<>>, 1, d.exc)

\* main, lines 291-300, from what fetch_url came to.
Conclude(response) ==
    IF response.ok THEN Finish(display_weather_data(response.value))
    ELSE Terminate(response)

(***************************************************************************)
(* Bounds and inputs                                                       *)
(***************************************************************************)
\* Runs of main in one process.
MaxRuns == 2

\* Acquisitions of the client by other code of the process.
MaxCalls == 2

\* How far past a range limit the validator's inputs go, in tenths.
Margin == 2

\* An option's text with what it is: whether argparse takes it as the
\* option's argument, whether float() takes it, its value in tenths, and how
\* Python prints that value.
Num(text, argument, numeric, tenths, repr) ==
    [arg |-> PyStr(text), argument |-> argument, numeric |-> numeric,
     tenths |-> tenths, repr |-> repr]

Absent ==
    [arg |-> None, argument |-> FALSE, numeric |-> FALSE, tenths |-> 0, repr |-> ""]

LatitudeTexts ==
    {Num(<<"0">>, TRUE, TRUE, 0, "0.0"),
     Num(<<"-", "0">>, TRUE, TRUE, 0, "-0.0"),
     Num(<<"4", "7", ".", "6">>, TRUE, TRUE, 476, "47.6"),
     Num(<<"-", "9", "0">>, TRUE, TRUE, -900, "-90.0"),
     Num(<<"9", "0", ".", "1">>, TRUE, TRUE, 901, "90.1"),
     Num(<<"\r", "1", "_", "0">>, TRUE, TRUE, 100, "10.0"),
     Num(<<"n", "o", "r", "t", "h">>, TRUE, FALSE, 0, "")}

LongitudeTexts ==
    {Num(<<"0">>, TRUE, TRUE, 0, "0.0"),
     Num(<<"-", "1", "2", "2", ".", "3">>, TRUE, TRUE, -1223, "-122.3"),
     Num(<<"1", "8", "0", ".", "0">>, TRUE, TRUE, 1800, "180.0"),
     Num(<<"-", "1", "8", "0", ".", "1">>, TRUE, TRUE, -1801, "-180.1"),
     Num(<<"-", "5", ".">>, FALSE, TRUE, -50, "-5.0"),
     Num(<<"1", "_", "_", "0">>, TRUE, FALSE, 0, ""),
     Num(<<"1", "2", "e">>, TRUE, FALSE, 0, "")}

\* An address with what it is: whether argparse takes it as the argument of
\* --address.
Address(text, argument) == [arg |-> PyStr(text), argument |-> argument]

NoAddress == [arg |-> None, argument |-> FALSE]

Addresses ==
    {Address(<<>>, TRUE),
     Address(<<" ", "\r">>, TRUE),
     Address(<<",">>, TRUE),
     Address(<<"-", "x">>, FALSE),
     Address(<<"1", " ", "M", "a", "i", "n", ",", " ", " ", "S", "t", ".">>, TRUE)}

\* The command lines of the model.
CommandLines ==
    {Namespace(a.arg, lat.arg, lon.arg, v) :
        a \in Addresses \cup {NoAddress},
        lat \in LatitudeTexts \cup {Absent},
        lon \in LongitudeTexts \cup {Absent},
        v \in BOOLEAN}

GeoBodies ==
    {GEO_MALFORMED, GEO_EMPTY, GEO_EMPTY_OBJECT, GEO_ERROR_OBJECT, GEO_SEATTLE,
     GEO_TWO, GEO_OUT_OF_RANGE, GEO_NOT_NUMERIC, GEO_UNNAMED, GEO_NUMBERS,
     GEO_STRING}

WxBodies ==
    {WX_MALFORMED, WX_SEATTLE, WX_COLD, WX_NO_CURRENT, WX_NO_LATITUDE,
     WX_NO_LONGITUDE, WX_LATITUDE_TEXT, WX_LATITUDE_NULL, WX_NO_TEMPERATURE,
     WX_CURRENT_NUMBER, WX_LIST, WX_LIST_OF_KEYS, WX_STRING, WX_STRING_OF_KEYS,
     WX_NUMBER, WX_INTEGERS, WX_CONTAINERS}

HttpFailures ==
    {HttpResponse(404, "Not Found"), HttpBytes(200), HttpTimeout,
     HttpRequestError("Max retries exceeded")}

GeoHttp == {HttpResponse(200, b) : b \in GeoBodies} \cup HttpFailures

WxHttp == {HttpResponse(200, b) : b \in WxBodies} \cup HttpFailures

(***************************************************************************)
(* State                                                                   *)
(***************************************************************************)
VARIABLES
    pc,           \* where main is: start, get_weather_url, fetch, done
    args,         \* sys.argv[1:], as options
    parsed_args,  \* main's parsed_args
    url,          \* main's url
    cls,          \* the class WeatherAPI
    events,       \* the requests and releases of the current run, in order
    out,          \* the current run's Outcome
    acquired,     \* every object an acquisition of the client has returned
    run0,         \* the class WeatherAPI as the current run began
    runs,         \* runs of main begun in this process
    calls,        \* calls by other code of the process
    created,      \* pool managers other code made with create_http_client()
    call          \* a single function call under test: [fn, input, ret, done]

vars == <<pc, args, parsed_args, url, cls, events, out, acquired, run0, runs,
          calls, created, call>>

NoCall == [fn |-> "", input |-> None, ret |-> None, done |-> FALSE]

Running == Outcome(<<>>, <<>>, -1, "")

Init ==
    /\ pc = "start"
    /\ args \in CommandLines
    /\ parsed_args = None
    /\ url = ""
    /\ cls = WeatherAPIClass(None, 0, 0)
    /\ events = <<>>
    /\ out = Running
    /\ acquired = {}
    /\ run0 = cls
    /\ runs = 1
    /\ calls = 0
    /\ created = 0
    /\ call = NoCall

(***************************************************************************)
(* main                                                                    *)
(***************************************************************************)
\* main, line 285: parse_args(sys.argv[1:]).
ParseArgs ==
    /\ pc = "start"
    /\ LET r == parse_args(args)
       IN  IF r.ok
           THEN /\ parsed_args' = r.value
                /\ pc' = "get_weather_url"
                /\ out' = out
           ELSE /\ parsed_args' = parsed_args
                /\ pc' = "done"
                /\ out' = Terminate(r)
    /\ UNCHANGED <<args, url, cls, events, acquired, run0, runs, calls, created,
                   call>>

\* The rest of main once get_weather_url has come to r.
AfterGetWeatherUrl(r) ==
    IF r.ok
    THEN /\ url' = r.value
         /\ pc' = "fetch"
         /\ out' = out
    ELSE /\ url' = url
         /\ pc' = "done"
         /\ out' = Terminate(r)

\* main, line 288: get_weather_url(parsed_args), with the geocoding exchange
\* when it has one.
GetWeatherUrl ==
    /\ pc = "get_weather_url"
    /\ IF Geocodes(parsed_args)
       THEN \E http \in GeoHttp :
               LET c == get_instance(cls)
                   address == sanitize_address(parsed_args.address).value
               IN  /\ cls' = c
                   /\ acquired' = acquired \cup {c.instance}
                   /\ events' = ScopedFetch(events, c.instance.http, GeocodeUrl(address))
                   /\ AfterGetWeatherUrl(get_weather_url(parsed_args, http))
       ELSE /\ UNCHANGED <<cls, acquired, events>>
            /\ AfterGetWeatherUrl(get_weather_url(parsed_args, HttpTimeout))
    /\ UNCHANGED <<args, parsed_args, run0, runs, calls, created, call>>

\* main, lines 290-294: the forecast exchange and display_weather_data.
FetchForecast ==
    /\ pc = "fetch"
    /\ \E http \in WxHttp :
          LET c == get_instance(cls)
          IN  /\ cls' = c
              /\ acquired' = acquired \cup {c.instance}
              /\ events' = ScopedFetch(events, c.instance.http, url)
              /\ out' = Conclude(fetch_url(http))
    /\ pc' = "done"
    /\ UNCHANGED <<args, parsed_args, url, run0, runs, calls, created, call>>

Next == ParseArgs \/ GetWeatherUrl \/ FetchForecast

\* One run of main in a fresh process.
Spec == Init /\ [][Next]_vars

(***************************************************************************)
(* A process that runs main more than once, with other code acquiring the  *)
(* client between the runs                                                 *)
(***************************************************************************)
\* Other code calls WeatherAPI.get_instance() before a run.
CallGetInstance ==
    /\ pc = "start"
    /\ calls < MaxCalls
    /\ calls' = calls + 1
    /\ cls' = get_instance(cls)
    /\ acquired' = acquired \cup {cls'.instance}
    /\ run0' = cls'
    /\ UNCHANGED <<pc, args, parsed_args, url, events, out, runs, created, call>>

\* Other code calls WeatherAPI() before a run.
CallConstructor ==
    /\ pc = "start"
    /\ calls < MaxCalls
    /\ calls' = calls + 1
    /\ cls' = WeatherAPI_new(cls)
    /\ acquired' = acquired \cup {cls'.instance}
    /\ run0' = cls'
    /\ UNCHANGED <<pc, args, parsed_args, url, events, out, runs, created, call>>

\* Other code calls create_http_client() before a run.
CallCreateHttpClient ==
    /\ pc = "start"
    /\ calls < MaxCalls
    /\ calls' = calls + 1
    /\ created' = created + 1
    /\ cls' = create_http_client(cls)
    /\ run0' = cls'
    /\ UNCHANGED <<pc, args, parsed_args, url, events, out, acquired, runs, call>>

\* main is called again, with another command line.
Restart ==
    /\ pc = "done"
    /\ runs < MaxRuns
    /\ runs' = runs + 1
    /\ pc' = "start"
    /\ args' \in CommandLines
    /\ parsed_args' = None
    /\ url' = ""
    /\ events' = <<>>
    /\ out' = Running
    /\ run0' = cls
    /\ UNCHANGED <<cls, acquired, calls, created, call>>

NextProcess ==
    Next \/ CallGetInstance \/ CallConstructor \/ CallCreateHttpClient \/ Restart

SpecProcess == Init /\ [][NextProcess]_vars

(***************************************************************************)
(* Single calls of the functions, each on an input with what is known of   *)
(* that input beside it                                                    *)
(***************************************************************************)
\* A float argument with what it is.
Flt(tenths, repr) ==
    [arg |-> PyFloat(tenths), numeric |-> TRUE, tenths |-> tenths, repr |-> repr]

Floats ==
    {Flt(476, "47.6"), Flt(-1223, "-122.3"), Flt(0, "0.0"), Flt(900, "90.0"),
     Flt(-901, "-90.1"), Flt(1800, "180.0"), Flt(1801, "180.1")}

\* Arguments that are numbers of other kinds: -0.0, an int, a bool.
Numbers ==
    {[arg |-> MakeFloat(TRUE, 0), numeric |-> TRUE, tenths |-> 0, repr |-> "-0.0"],
     [arg |-> PyInt(-48), numeric |-> TRUE, tenths |-> -480, repr |-> "-48.0"],
     [arg |-> PyBool(TRUE), numeric |-> TRUE, tenths |-> 10, repr |-> "1.0"]}

\* The values near a range limit, with two inside the range.
Near(limit) ==
    {v \in (-limit - Margin)..(limit + Margin) :
        \/ v >= limit - Margin
        \/ v <= Margin - limit
        \/ v \in {0, 476}}

\* A forecast body with what it holds: whether it is JSON, what it decodes
\* to, the required keys that holds, whether latitude and longitude are
\* numbers and current a mapping, and the measurements as Python prints them.
Wx(body, decoded, shape, keys, typed, temperature, wind) ==
    [body |-> body, decoded |-> decoded, shape |-> shape, keys |-> keys,
     typed |-> typed, temperature |-> temperature, wind |-> wind]

RequiredKeys == {"latitude", "longitude", "current"}

WxCases ==
    {Wx(WX_MALFORMED, FALSE, "", {}, FALSE, "", ""),
     Wx(WX_SEATTLE, TRUE, "object", RequiredKeys, TRUE, "72.5", "5.0"),
     Wx(WX_COLD, TRUE, "object", RequiredKeys, TRUE, "-3.4", "12.1"),
     Wx(WX_NO_CURRENT, TRUE, "object", {"latitude", "longitude"}, TRUE, "", ""),
     Wx(WX_NO_LATITUDE, TRUE, "object", {"longitude", "current"}, TRUE, "72.5", "5.0"),
     Wx(WX_NO_LONGITUDE, TRUE, "object", {"latitude", "current"}, TRUE, "72.5", "5.0"),
     Wx(WX_LATITUDE_TEXT, TRUE, "object", RequiredKeys, FALSE, "72.5", "5.0"),
     Wx(WX_LATITUDE_NULL, TRUE, "object", RequiredKeys, FALSE, "72.5", "5.0"),
     Wx(WX_NO_TEMPERATURE, TRUE, "object", RequiredKeys, TRUE, "None", "5.0"),
     Wx(WX_CURRENT_NUMBER, TRUE, "object", RequiredKeys, FALSE, "", ""),
     Wx(WX_LIST, TRUE, "list", {}, FALSE, "", ""),
     Wx(WX_LIST_OF_KEYS, TRUE, "list", RequiredKeys, FALSE, "", ""),
     Wx(WX_STRING, TRUE, "string", {"current"}, FALSE, "", ""),
     Wx(WX_STRING_OF_KEYS, TRUE, "string", RequiredKeys, FALSE, "", ""),
     Wx(WX_NUMBER, TRUE, "number", {}, FALSE, "", ""),
     Wx(WX_INTEGERS, TRUE, "object", RequiredKeys, TRUE, "70", "5"),
     Wx(WX_CONTAINERS, TRUE, "object", RequiredKeys, TRUE, "[1.0, 'a']", "{'x': None}")}

\* A geocoding exchange with what it is: whether the request failed, whether
\* the body is JSON, and what the body decodes to.
Geo(http, fetched, decoded, shape) ==
    [http |-> http, fetched |-> fetched, decoded |-> decoded, shape |-> shape]

GeoCases ==
    {Geo(h, FALSE, FALSE, "") : h \in HttpFailures}
        \cup {Geo(HttpResponse(200, GEO_MALFORMED), TRUE, FALSE, ""),
              Geo(HttpResponse(200, GEO_EMPTY), TRUE, TRUE, "empty list"),
              Geo(HttpResponse(200, GEO_EMPTY_OBJECT), TRUE, TRUE, "empty object"),
              Geo(HttpResponse(200, GEO_ERROR_OBJECT), TRUE, TRUE, "object"),
              Geo(HttpResponse(200, GEO_SEATTLE), TRUE, TRUE, "list"),
              Geo(HttpResponse(200, GEO_TWO), TRUE, TRUE, "list"),
              Geo(HttpResponse(200, GEO_OUT_OF_RANGE), TRUE, TRUE, "list"),
              Geo(HttpResponse(200, GEO_NOT_NUMERIC), TRUE, TRUE, "list"),
              Geo(HttpResponse(200, GEO_UNNAMED), TRUE, TRUE, "list"),
              Geo(HttpResponse(200, GEO_NUMBERS), TRUE, TRUE, "list"),
              Geo(HttpResponse(200, GEO_STRING), TRUE, TRUE, "string")}

\* An address with the components the parser reports for it.
Addr(text, blank, components) ==
    [arg |-> PyStr(text), blank |-> blank, components |-> components]

AddrCases ==
    {Addr(<<>>, TRUE, <<>>),
     Addr(<<" ", " ">>, TRUE, <<>>),
     Addr(<<",">>, FALSE, <<>>),
     Addr(<<" ", ",", " ", ";">>, FALSE, <<>>),
     Addr(<<"1", " ", "M", "a", "i", "n", ",", " ", " ", "S", "t", ".">>, FALSE,
          <<"1", "Main,", "St.">>),
     Addr(<<" ", "d", "c", " ">>, FALSE, <<"dc">>),
     Addr(<<"\r", "\f">>, TRUE, <<>>),
     Addr(<<Chr(160)>>, TRUE, <<>>),
     Addr(<<"a", "&", "a", "m", "p", ";", "b">>, FALSE, <<"a", "&", "b">>),
     Addr(<<"é">>, FALSE, <<"é">>),
     Addr(<<"(", "1", "2", ")", " ", "-", "A", "&", "b", ".", "c", ".">>, FALSE,
          <<"(12)", "A", "&", "b.c.">>)}

Pending(fn, a) == [fn |-> fn, input |-> a, ret |-> None, done |-> FALSE]

Calls ==
    {Pending("validate_latitude_longitude", [latitude |-> la, longitude |-> lo]) :
        la \in Near(Deg(90)), lo \in Near(Deg(180))}
    \cup
    {Pending("build_url", [latitude |-> la, longitude |-> lo]) :
        la \in LatitudeTexts \cup Floats \cup Numbers \cup {Absent},
        lo \in LongitudeTexts \cup Floats \cup Numbers \cup {Absent}}
    \cup
    {Pending("parse_args", [address |-> a, latitude |-> la, longitude |-> lo,
                            verbose |-> v]) :
        a \in Addresses \cup {NoAddress},
        la \in LatitudeTexts \cup {Absent},
        lo \in LongitudeTexts \cup {Absent},
        v \in BOOLEAN}
    \cup {Pending("sanitize_address", a) : a \in AddrCases}
    \cup
    {Pending("get_coords_from_address", [http |-> g, verbose |-> v]) :
        g \in GeoCases, v \in BOOLEAN}
    \cup {Pending("from_dict", w) : w \in {c \in WxCases : c.decoded}}
    \cup {Pending("display_weather_data", w) : w \in WxCases}

InitFn ==
    /\ pc = "call"
    /\ args = None
    /\ parsed_args = None
    /\ url = ""
    /\ cls = WeatherAPIClass(None, 0, 0)
    /\ events = <<>>
    /\ out = Running
    /\ acquired = {}
    /\ run0 = cls
    /\ runs = 0
    /\ calls = 0
    /\ created = 0
    /\ call \in Calls

\* The call returns (or raises) r.
Returns(fn, r) ==
    /\ call.fn = fn
    /\ ~call.done
    /\ call' = [call EXCEPT !.ret = r, !.done = TRUE]
    /\ UNCHANGED <<pc, args, parsed_args, url, cls, events, out, acquired, run0,
                   runs, calls, created>>

CallValidate ==
    Returns("validate_latitude_longitude",
            validate_latitude_longitude(call.input.latitude, call.input.longitude))

CallBuildUrl ==
    Returns("build_url", build_url(call.input.latitude.arg, call.input.longitude.arg))

CallParseArgs ==
    Returns("parse_args",
            parse_args(Namespace(call.input.address.arg, call.input.latitude.arg,
                                 call.input.longitude.arg, call.input.verbose)))

CallSanitizeAddress == Returns("sanitize_address", sanitize_address(call.input.arg))

\* get_coords_from_address('dc', verbose): the call acquires the client,
\* makes its request and releases the pool.
CallGetCoords ==
    /\ call.fn = "get_coords_from_address"
    /\ ~call.done
    /\ call' = [call EXCEPT
                   !.ret = get_coords_from_address(PyStr(<<"d", "c">>),
                                                   call.input.verbose,
                                                   call.input.http.http),
                   !.done = TRUE]
    /\ cls' = get_instance(cls)
    /\ acquired' = acquired \cup {cls'.instance}
    /\ events' = ScopedFetch(events, cls'.instance.http,
                             GeocodeUrl(PyStr(<<"d", "c">>)))
    /\ UNCHANGED <<pc, args, parsed_args, url, out, run0, runs, calls, created>>

CallFromDict == Returns("from_dict", from_dict(json_loads(call.input.body).value))

CallDisplay == Returns("display_weather_data", display_weather_data(call.input.body))

NextFn ==
    \/ CallValidate
    \/ CallBuildUrl
    \/ CallParseArgs
    \/ CallSanitizeAddress
    \/ CallGetCoords
    \/ CallFromDict
    \/ CallDisplay

SpecFn == InitFn /\ [][NextFn]_vars

(***************************************************************************)
(* Properties                                                              *)
(***************************************************************************)
IsRequest(ev) == ev.e = "request"

IsRelease(ev) == ev.e = "release"

\* The URLs the current run has requested, in order.
Requested == [i \in 1..Len(SelectSeq(events, IsRequest)) |->
                 SelectSeq(events, IsRequest)[i].url]

Releases == Len(SelectSeq(events, IsRelease))

InLatitudeRange(t) == -900 <= t /\ t <= 900

InLongitudeRange(t) == -1800 <= t /\ t <= 1800

Returned(fn) == call.fn = fn /\ call.done

\* C1 (as claimed): a run in which a stage failed ends with exit code 1 and
\* prints nothing; a run ends with exit code 0 only when the two weather
\* lines were printed.  Stated on the end of a run: exit code 0 exactly when
\* the two lines are on standard output.
C1_ExitCodeTellsSuccess ==
    pc = "done" => (out.exit_code = 0 <=> Len(out.stdout) = 2)

\* C2 (as claimed): in every run the release of the pooled client happens
\* exactly once, at the end of the run, after the last request.  Stated of
\* the runs that use the client at all.
C2_ReleasedExactlyOnce ==
    pc = "done" /\ Len(Requested) >= 1
    => Releases = 1 /\ IsRelease(events[Len(events)])

\* C2 (amended): the release happens once after each HTTP request of the run,
\* whether the request succeeded or failed, and before the next request: no
\* release in a run that ends before its first request, one in a run that
\* issues one request, two in address mode once the forecast is requested;
\* the last release follows the last request.
C2_ReleasedAfterEachRequest ==
    /\ Len(events) \in {0, 2, 4}
    /\ \A i \in 1..Len(events) :
          IF i % 2 = 1
          THEN IsRequest(events[i])
          ELSE events[i] = Release(events[i - 1].pool)
    /\ pc = "done" /\ Len(out.stdout) = 2 /\ parsed_args.address # None
          => Releases = 2
    /\ pc = "done" /\ parsed_args # None /\ parsed_args.address = None
          => Releases <= 1
    /\ pc = "done" /\ parsed_args = None => Releases = 0

C2_Witness ==
    /\ pc = "done"
    /\ out.exit_code = 1
    /\ Releases = 2
    /\ IsRelease(events[2])
    /\ IsRequest(events[3])

\* C3: however often the client is acquired, by get_instance() or by
\* WeatherAPI(), the acquisitions construct one WeatherAPI object and one
\* pool manager at most (beside the pool managers other code makes with
\* create_http_client() itself); the pool manager is constructed by the
\* first acquisition, every acquisition returns that one object with that
\* one pool, and a run that ends before its first request constructs
\* nothing.
C3_Singleton ==
    /\ cls.objects <= 1
    /\ cls.pools - created <= 1
    /\ Cardinality(acquired) <= 1
    /\ acquired = {} => cls.pools = created /\ cls.instance = None
    /\ acquired # {} => cls.pools = created + 1 /\ acquired = {cls.instance}
    /\ pc = "done" /\ events = <<>> => cls = run0

C3_Witness ==
    /\ runs = 2
    /\ calls = 2
    /\ pc = "done"
    /\ Len(events) = 4
    /\ run0.instance # None
    /\ acquired = {[id |-> 1, http |-> 1]}

\* C4: parse_args, over the options being absent or present (each text one
\* that argparse takes as the option's argument, numbers being numbers): it
\* fails with ParsedArgumentError when the address comes with a
\* latitude or a longitude, when one of latitude and longitude comes alone,
\* and when nothing is given; it succeeds on an address alone and on a
\* latitude and longitude that are both in range.
C4_ParseArgs ==
    Returned("parse_args")
        /\ (call.input.address.argument \/ call.input.address = NoAddress)
        /\ \/ call.input.latitude.argument /\ call.input.latitude.numeric
           \/ call.input.latitude = Absent
        /\ \/ call.input.longitude.argument /\ call.input.longitude.numeric
           \/ call.input.longitude = Absent
    => LET a == call.input.address # NoAddress
           la == call.input.latitude # Absent
           lo == call.input.longitude # Absent
       IN  /\ a /\ (la \/ lo) => call.ret.exc = "ParsedArgumentError"
           /\ la # lo => call.ret.exc = "ParsedArgumentError"
           /\ ~a /\ ~la /\ ~lo => call.ret.exc = "ParsedArgumentError"
           /\ a /\ ~la /\ ~lo =>
                 /\ call.ret.ok
                 /\ call.ret.value.address = call.input.address.arg
           /\ ~a /\ la /\ lo /\ InLatitudeRange(call.input.latitude.tenths)
                 /\ InLongitudeRange(call.input.longitude.tenths) =>
                 /\ call.ret.ok
                 /\ call.ret.value.latitude.t = "float"
                 /\ call.ret.value.latitude.v = call.input.latitude.tenths
                 /\ call.ret.value.longitude.t = "float"
                 /\ call.ret.value.longitude.v = call.input.longitude.tenths

C4_Witness ==
    /\ Returned("parse_args")
    /\ call.input.address = NoAddress
    /\ call.input.latitude.tenths = 0
    /\ call.input.latitude.numeric
    /\ call.input.longitude.tenths = 1800
    /\ call.ret.ok

\* C5: validate_latitude_longitude returns true exactly when the latitude is
\* within [-90, 90] and the longitude within [-180, 180], limits included.
C5_Validate ==
    Returned("validate_latitude_longitude")
    => (call.ret <=> /\ InLatitudeRange(call.input.latitude)
                     /\ InLongitudeRange(call.input.longitude))

C5_Witness ==
    /\ Returned("validate_latitude_longitude")
    /\ call.input.latitude = 900
    /\ call.input.longitude = -1800
    /\ call.ret

\* C6: build_url fails, with BuildUrlError, exactly when an input is no
\* number (a missing one included) or the pair is out of range; otherwise it
\* returns the forecast base URL, latitude=<lat>&longitude=<long> and the
\* fixed parameters, so a URL it returns carries coordinates in range.
C6_BuildUrl ==
    Returned("build_url")
    => LET la == call.input.latitude
           lo == call.input.longitude
           good == /\ la.numeric
                   /\ lo.numeric
                   /\ InLatitudeRange(la.tenths)
                   /\ InLongitudeRange(lo.tenths)
       IN  /\ call.ret.ok <=> good
           /\ ~call.ret.ok => call.ret.exc = "BuildUrlError"
           /\ call.ret.ok =>
                 call.ret.value =
                     "https://api.open-meteo.com/v1/forecast?latitude=" \o la.repr
                         \o "&longitude=" \o lo.repr
                         \o "&current=temperature_2m,wind_speed_10m&temperature_unit=fahrenheit&wind_speed_unit=mph&timezone=auto"

C6_Witness ==
    /\ Returned("build_url")
    /\ call.input.latitude.arg = PyStr(<<"4", "7", ".", "6">>)
    /\ call.input.longitude.arg = PyFloat(-1223)
    /\ call.ret.ok

\* C7 (as claimed): get_coords_from_address fails with
\* GetCoordsFromAddressError when the response body is not JSON, when the
\* decoded list is empty, and when the fetch fails.
C7_GeocodeErrorKind ==
    Returned("get_coords_from_address")
        /\ (\/ ~call.input.http.fetched
            \/ ~call.input.http.decoded
            \/ call.input.http.shape = "empty list")
    => call.ret.exc = "GetCoordsFromAddressError"

\* C8 (as claimed): sanitize_address never returns an empty result; it fails
\* on an empty or blank address and when the parser reports no components.
C8_NeverEmpty ==
    Returned("sanitize_address")
    => /\ call.ret.ok => call.ret.value.v # <<>>
       /\ call.input.blank \/ call.input.components = <<>> => ~call.ret.ok

\* C9 (as claimed): a decoded payload lacking latitude, longitude or current
\* fails construction with the missing-fields error, and a payload with all
\* three is constructed and rendered with its own measurements.
C9_AnyPayloadWithTheKeys ==
    /\ Returned("from_dict") =>
          /\ call.input.keys # RequiredKeys =>
                call.ret = Raise("ValueError", "Missing required fields in weather data")
          /\ call.input.keys = RequiredKeys => call.ret.ok
    /\ Returned("display_weather_data") /\ call.input.decoded
            /\ call.input.keys = RequiredKeys
       => call.ret.stdout = <<"Temperature:\t" \o call.input.temperature \o "°",
                              "Wind Speed:\t" \o call.input.wind \o " MPH">>

\* C9 (amended): a decoded payload that is an object, a list or a string
\* and does not hold latitude, longitude and current fails construction with
\* the missing-fields error; an object with all three whose latitude and
\* longitude are numbers or numeric text and whose current is an object is
\* constructed and rendered with its own measurements as Python prints them
\* (None for one that current does not hold).
C9_WellTypedPayload ==
    /\ Returned("from_dict") =>
          /\ call.input.shape # "number" /\ call.input.keys # RequiredKeys =>
                call.ret = Raise("ValueError", "Missing required fields in weather data")
          /\ call.input.keys = RequiredKeys /\ call.input.typed => call.ret.ok
    /\ Returned("display_weather_data") /\ call.input.decoded =>
          /\ call.input.shape # "number" /\ call.input.keys # RequiredKeys =>
                call.ret =
                    Displayed(<<>>,
                              <<"Failed to parse weather data: Missing required fields in weather data">>,
                              "")
          /\ call.input.keys = RequiredKeys /\ call.input.typed =>
                call.ret =
                    Displayed(<<"Temperature:\t" \o call.input.temperature \o "°",
                                "Wind Speed:\t" \o call.input.wind \o " MPH">>,
                              <<>>, "")

C9_Witness ==
    /\ Returned("display_weather_data")
    /\ call.input.body = WX_COLD
    /\ call.ret.stdout = <<"Temperature:\t-3.4°", "Wind Speed:\t12.1 MPH">>

\* C10 (as claimed): a run given a latitude and a longitude in range and no
\* address (latitude 0 and longitude 0 included) issues no geocoding request
\* and one forecast request, whose URL carries the latitude and longitude
\* given; in address mode the geocoding request comes before the forecast
\* request.
C10_DirectPath ==
    /\ pc = "done" /\ parsed_args # None /\ parsed_args.address = None
       => /\ Len(Requested) = 1
          /\ Requested[1] =
                build_url(parsed_args.latitude, parsed_args.longitude).value
    /\ pc = "done" /\ parsed_args # None /\ parsed_args.address # None
            /\ Len(Requested) >= 1
       => Requested[1] = GeocodeUrl(sanitize_address(parsed_args.address).value)

====
